---- MODULE Spec2Model ----
(***************************************************************************)
(* Model of messagecaller/server/back-end.js (lines 1-410): the socket.io  *)
(* handlers over the four in-memory Maps users, messages,                  *)
(* activeConnections and signInRequests.                                   *)
(*                                                                         *)
(* JavaScript strings are sequences of UTF-16 code units: "1234" is        *)
(* <<49,50,51,52>>.  A payload object is a function whose DOMAIN holds the *)
(* properties that are present; an absent property reads as undefined.     *)
(* Node runs every handler to completion, so each handler is one action.   *)
(***************************************************************************)
EXTENDS Integers, Sequences, FiniteSets, TLC

\* ------------------------------------------------------------------ bounds
\* connections ever opened (socket ids are never reused)
MaxSockets == 2
\* Date.now() runs over 0..MaxClock, counted from the start of the server
MaxClock == 1
\* messages stored over all conversation logs
MaxMsgs == 1
\* messages stored where the specification is about the logs themselves
MaxLogMsgs == 2

\* user.socketId = null (line 399); falsy, unlike every socket id
Null == 0

\* ---------------------------------------------------------------- strings
STR_1234 == <<49, 50, 51, 52>>
STR_5678 == <<53, 54, 55, 56>>
\* invalid identifiers: "", "123", "12345", "12a4", "123" followed by U+0663
\* (ARABIC-INDIC DIGIT THREE)
STR_EMPTY == <<>>
STR_123 == <<49, 50, 51>>
STR_12345 == <<49, 50, 51, 52, 53>>
STR_12a4 == <<49, 50, 97, 52>>
STR_123u == <<49, 50, 51, 1635>>
STR_9999 == <<57, 57, 57, 57>>
STR_hi == <<104, 105>>
STR_aAtX == <<97, 64, 120>>
STR_SPACE == <<32>>
STR_DASH == <<45>>

ValidNumbers == {STR_1234, STR_5678}
InvalidNumbers == {STR_EMPTY, STR_123, STR_12345, STR_12a4, STR_123u}

\* Number.prototype.toString of a non-negative integer (line 113)
RECURSIVE DecStr(_)
DecStr(n) == IF n < 10 THEN <<48 + n>> ELSE DecStr(n \div 10) \o <<48 + (n % 10)>>

\* /\d/ without the u flag: the ASCII digits only
IsDigit(c) == c \in 48..57

\* mutant: the regular expression test of line 100 is left out
InvalidNumber_LengthOnly(userData) ==
    \/ "number" \notin DOMAIN userData
    \/ Len(userData.number) # 4

\* !number || number.length !== 4 || !/^\d{4}$/.test(number)   (line 100)
InvalidNumber(userData) ==
    \/ "number" \notin DOMAIN userData
    \/ Len(userData.number) = 0
    \/ Len(userData.number) # 4
    \/ ~ (\A i \in 1..Len(userData.number) : IsDigit(userData.number[i]))

\* a < b in the order of Array.prototype.sort(): code unit by code unit
RECURSIVE StrLess(_, _)
StrLess(a, b) ==
    IF b = <<>> THEN FALSE
    ELSE IF a = <<>> THEN TRUE
    ELSE IF a[1] # b[1] THEN a[1] < b[1]
    ELSE StrLess(Tail(a), Tail(b))

\* mutant: every pair gets the same key
ChatId_OneKey(x, y) == STR_DASH

\* mutant: the pair is joined without being sorted
ChatId_Unsorted(x, y) == x \o STR_DASH \o y

\* [x, y].sort().join('-')   (lines 263, 323)
ChatId(x, y) == IF StrLess(y, x) THEN y \o STR_DASH \o x ELSE x \o STR_DASH \o y

\* String.prototype.trim() over the white space the inputs use
RECURSIVE TrimLeft(_)
TrimLeft(s) == IF s # <<>> /\ s[1] = 32 THEN TrimLeft(Tail(s)) ELSE s
RECURSIVE TrimRight(_)
TrimRight(s) ==
    IF s # <<>> /\ s[Len(s)] = 32 THEN TrimRight(SubSeq(s, 1, Len(s) - 1)) ELSE s
Trim(s) == TrimRight(TrimLeft(s))

\* toUpperCase on the ASCII letters
ToUpper(c) == IF c \in 97..122 THEN c - 32 ELSE c

\* one character of encodeToNumbers (lines 35-40)
EncodeChar(c) ==
    IF c = 32 THEN <<48>>
    ELSE IF ToUpper(c) \in 65..90 THEN DecStr(ToUpper(c) - 64)
    ELSE DecStr(c)

\* encodeToNumbers(text): the characters' codes joined by '-' (lines 33-42)
RECURSIVE encodeToNumbers(_)
encodeToNumbers(text) ==
    IF text = <<>> THEN <<>>
    ELSE IF Len(text) = 1 THEN EncodeChar(text[1])
    ELSE EncodeChar(text[1]) \o STR_DASH \o encodeToNumbers(Tail(text))

\* ------------------------------------------------------------------- Maps
MapSet(m, k, v) == [x \in DOMAIN m \cup {k} |-> IF x = k THEN v ELSE m[x]]
MapDelete(m, k) == [x \in DOMAIN m \ {k} |-> m[x]]
EmptyMap == [x \in {} |-> 0]

\* ------------------------------------------------------------------ state
VARIABLES
    users,              \* Map userId -> user record (line 57)
    userOrder,          \* insertion order of the keys of users
    messages,           \* Map chatId -> sequence of messages (line 58)
    activeConnections,  \* Map socketId -> userId (line 59)
    signInRequests,     \* Map requestId -> {number, requestingSocketId} (line 60)
    opened,             \* number of connections accepted so far
    connected,          \* the socket ids whose connection is open
    clock,              \* Date.now()
    emitted,            \* the events the last handler emitted, in order
    mails               \* the mails the last handler handed to sendMail

vars == <<users, userOrder, messages, activeConnections, signInRequests,
          opened, connected, clock, emitted, mails>>

store == <<users, userOrder, messages, activeConnections, signInRequests>>

SocketIds == 1..MaxSockets

Emit(to, event, payload) == [to |-> to, event |-> event, payload |-> payload]
NoData == [none |-> TRUE]

Init ==
    /\ users = EmptyMap
    /\ userOrder = <<>>
    /\ messages = EmptyMap
    /\ activeConnections = EmptyMap
    /\ signInRequests = EmptyMap
    /\ opened = 0
    /\ connected = {}
    /\ clock = 0
    /\ emitted = <<>>
    /\ mails = <<>>

\* io.on('connection'): a new socket with a fresh id (line 92)
connection ==
    /\ opened < MaxSockets
    /\ opened' = opened + 1
    /\ connected' = connected \cup {opened + 1}
    /\ emitted' = <<>>
    /\ mails' = <<>>
    /\ UNCHANGED <<store, clock>>

\* the wall clock advances between two handlers
Tick ==
    /\ clock < MaxClock
    /\ clock' = clock + 1
    /\ emitted' = <<>>
    /\ mails' = <<>>
    /\ UNCHANGED <<store, opened, connected>>

\* ----------------------------------------------------------------- inputs
\* Profile strings the code only stores and tests for emptiness are kept as
\* opaque strings; email, which it trims, is a code unit sequence.
\* One profile with properties that are truthy (lastname, phone), falsy
\* (nickname, age), blank (email) and absent (photo, birthday).
P_mixed == [nickname |-> "", lastname |-> "B", age |-> 0,
            email |-> STR_SPACE, phone |-> "555"]
RegisterProfiles == {P_mixed}

WithNumber(p, n) == ("number" :> n) @@ p

\* the userData payloads of register: every profile under each valid number,
\* one payload under each invalid number, one payload without a number
RegisterInputs ==
    {WithNumber(p, n) : p \in RegisterProfiles, n \in ValidNumbers}
        \cup {WithNumber(P_mixed, n) : n \in InvalidNumbers}
        \cup {P_mixed}

\* the payloads the sign-in specifications draw from: the valid
\* numbers and one malformed number
SignInInputs ==
    {WithNumber(p, n) : p \in RegisterProfiles, n \in ValidNumbers}
        \cup {WithNumber(P_mixed, STR_12a4)}

\* the well-formed payloads alone
ValidInputs == {WithNumber(p, n) : p \in RegisterProfiles, n \in ValidNumbers}

U_mail == [nickname |-> "Zed", email |-> STR_aAtX, age |-> 31]
UpdateInputs == {U_mail, EmptyMap}

\* requestIds a client may send back: every id the server can have issued
RequestIdInputs == {DecStr(n) : n \in 0..MaxClock}

\* recipients: the valid identifiers and one identifier nobody registers
ToInputs == ValidNumbers \cup {STR_9999}
TextInputs == {STR_hi}

\* targetNumber of getChatHistory: the recipients, and a string a client
\* made up from the key of a conversation of another user with itself
HistoryInputs == ToInputs \cup {STR_5678 \o STR_DASH \o STR_5678}

\* ---------------------------------------------------------------- helpers
\* x || d on a string property
OrStr(o, f, d) == IF f \in DOMAIN o /\ o[f] # "" THEN o[f] ELSE d
\* x || d on a code-unit string property
OrSeq(o, f, d) == IF f \in DOMAIN o /\ o[f] # <<>> THEN o[f] ELSE d
\* x || d on a numeric property
OrNum(o, f, d) == IF f \in DOMAIN o /\ o[f] # 0 THEN o[f] ELSE d

\* mutant: the record is stored without the number it was registered under
NewUser_Blank(userData, socketId) ==
    [number |-> <<>>, nickname |-> "User", lastname |-> "", photo |-> "",
     age |-> 0, email |-> <<>>, phone |-> "", birthday |-> "",
     socketId |-> socketId]

\* the object literal of lines 138-148
NewUser(userData, socketId) ==
    [number |-> userData.number,
     nickname |-> OrStr(userData, "nickname", "User"),
     lastname |-> OrStr(userData, "lastname", ""),
     photo |-> OrStr(userData, "photo", ""),
     age |-> OrNum(userData, "age", 0),
     email |-> OrSeq(userData, "email", <<>>),
     phone |-> OrStr(userData, "phone", ""),
     birthday |-> OrStr(userData, "birthday", ""),
     socketId |-> socketId]

\* mutant: the scan returns the first user whatever its number
FindByNumber_First(number) ==
    IF userOrder = <<>> THEN {} ELSE {userOrder[1]}

\* Array.from(users.values()).find(u => u.number === number): the key of the
\* first user, in insertion order, whose number field matches; the set is
\* empty when there is none   (lines 226, 249, 339, 361, 373, 385)
FindByNumber(number) ==
    LET hits == {i \in 1..Len(userOrder) : users[userOrder[i]].number = number}
    IN  IF hits = {} THEN {}
        ELSE {userOrder[CHOOSE i \in hits : \A j \in hits : i <= j]}

\* mutant: a property that is undefined resets the field
Assign_Reset(user, profileData, f) ==
    IF f \in DOMAIN profileData THEN profileData[f] ELSE ""

\* one assignment of lines 213-219: a property that is not undefined is copied
Assign(user, profileData, f) ==
    IF f \in DOMAIN profileData THEN profileData[f] ELSE user[f]

\* mutant: no existing user is taken to be logged in
LoggedInElsewhere_Never(existingUser) == FALSE

\* mutant: every existing user is taken to be logged in
LoggedInElsewhere_Always(existingUser) == TRUE

\* if (existingUser.socketId): the user is logged in on some device (line 111)
LoggedInElsewhere(existingUser) == existingUser.socketId # Null

\* mutant: the approving socket's entry is not deleted
RebindConnection_KeepOld(s, request, userId) ==
    MapSet(activeConnections, request.requestingSocketId, userId)

\* activeConnections after the hand-over: the approving socket's entry is
\* deleted, then the requesting socket is bound   (lines 177-178)
RebindConnection(s, request, userId) ==
    MapSet(MapDelete(activeConnections, s), request.requestingSocketId, userId)

\* mutant: the denied request stays pending
DeniedRequests_Keep(requestId) == signInRequests

\* signInRequests.delete(requestId) of denySignIn (line 200)
DeniedRequests(requestId) == MapDelete(signInRequests, requestId)

\* mutant: messageReceived is emitted whether or not the recipient is online
DeliverToRecipient_Always(toUser, message) ==
    <<Emit(toUser.socketId, "messageReceived", message)>>

\* if (toUser.socketId) io.to(toUser.socketId).emit('messageReceived', message)
\* (lines 274-276)
DeliverToRecipient(toUser, message) ==
    IF toUser.socketId # Null
    THEN <<Emit(toUser.socketId, "messageReceived", message)>>
    ELSE <<>>

\* ---------------------------------------------------------------- handlers
\* socket.on('register')   (lines 96-157)
register(s, userData) ==
    /\ s \in connected
    /\ IF InvalidNumber(userData)
       THEN /\ emitted' = <<Emit(s, "error",
                                [message |-> "Number must be exactly 4 digits"])>>
            /\ UNCHANGED <<users, userOrder, activeConnections, signInRequests>>
       ELSE LET userId == userData.number IN
            IF userId \in DOMAIN users
            THEN IF LoggedInElsewhere(users[userId])
                 THEN LET requestId == DecStr(clock) IN
                      /\ emitted' =
                             <<Emit(users[userId].socketId, "signInRequest",
                                    [requestId |-> requestId]),
                               Emit(s, "awaitingAuthorization",
                                    [message |-> "Waiting for authorization from your other device..."])>>
                      /\ signInRequests' = MapSet(signInRequests, requestId,
                             [number |-> userData.number, requestingSocketId |-> s])
                      /\ UNCHANGED <<users, userOrder, activeConnections>>
                 ELSE /\ users' = [users EXCEPT ![userId].socketId = s]
                      /\ activeConnections' = MapSet(activeConnections, s, userId)
                      /\ emitted' = <<Emit(s, "registered",
                                           [userId |-> userId, user |-> users'[userId]])>>
                      /\ UNCHANGED <<userOrder, signInRequests>>
            ELSE /\ users' = MapSet(users, userId, NewUser(userData, s))
                 /\ userOrder' = Append(userOrder, userId)
                 /\ activeConnections' = MapSet(activeConnections, s, userId)
                 /\ emitted' = <<Emit(s, "registered",
                                      [userId |-> userId, user |-> users'[userId]])>>
                 /\ UNCHANGED signInRequests
    /\ mails' = <<>>
    /\ UNCHANGED <<messages, opened, connected, clock>>

\* socket.on('approveSignIn')   (lines 160-188)
approveSignIn(s, data) ==
    /\ s \in connected
    /\ IF data.requestId \notin DOMAIN signInRequests
       THEN /\ emitted' = <<>>
            /\ UNCHANGED <<users, activeConnections, signInRequests>>
       ELSE IF s \notin DOMAIN activeConnections
       THEN /\ emitted' = <<>>
            /\ UNCHANGED <<users, activeConnections, signInRequests>>
       ELSE LET request == signInRequests[data.requestId]
                userId == activeConnections[s]
            IN  /\ users' = [users EXCEPT
                                ![userId].socketId = request.requestingSocketId]
                /\ activeConnections' = RebindConnection(s, request, userId)
                /\ emitted' = <<Emit(request.requestingSocketId, "signInApproved",
                                     [userId |-> userId, user |-> users'[userId]])>>
                /\ signInRequests' = MapDelete(signInRequests, data.requestId)
    /\ mails' = <<>>
    /\ UNCHANGED <<userOrder, messages, opened, connected, clock>>

\* socket.on('denySignIn')   (lines 191-202)
denySignIn(s, data) ==
    /\ s \in connected
    /\ IF data.requestId \notin DOMAIN signInRequests
       THEN /\ emitted' = <<>>
            /\ UNCHANGED signInRequests
       ELSE /\ emitted' = <<Emit(signInRequests[data.requestId].requestingSocketId,
                                 "signInDenied", NoData)>>
            /\ signInRequests' = DeniedRequests(data.requestId)
    /\ mails' = <<>>
    /\ UNCHANGED <<users, userOrder, messages, activeConnections,
                   opened, connected, clock>>

\* socket.on('updateProfile')   (lines 205-222)
updateProfile(s, profileData) ==
    /\ s \in connected
    /\ IF s \notin DOMAIN activeConnections
       THEN /\ emitted' = <<Emit(s, "error", [message |-> "Not registered"])>>
            /\ UNCHANGED users
       ELSE LET userId == activeConnections[s]
                user == users[userId]
            IN  /\ users' = [users EXCEPT ![userId] =
                       [user EXCEPT
                           !.nickname = Assign(user, profileData, "nickname"),
                           !.lastname = Assign(user, profileData, "lastname"),
                           !.photo = Assign(user, profileData, "photo"),
                           !.age = Assign(user, profileData, "age"),
                           !.email = Assign(user, profileData, "email"),
                           !.phone = Assign(user, profileData, "phone"),
                           !.birthday = Assign(user, profileData, "birthday")]]
                /\ emitted' = <<Emit(s, "profileUpdated", [user |-> users'[userId]])>>
    /\ mails' = <<>>
    /\ UNCHANGED <<userOrder, messages, activeConnections, signInRequests,
                   opened, connected, clock>>

\* socket.on('getUserByNumber')   (lines 225-237)
getUserByNumber(s, number) ==
    /\ s \in connected
    /\ IF FindByNumber(number) # {}
       THEN LET user == users[CHOOSE k \in FindByNumber(number) : TRUE] IN
            emitted' = <<Emit(s, "userFound",
                              [number |-> user.number, nickname |-> user.nickname,
                               lastname |-> user.lastname, photo |-> user.photo])>>
       ELSE emitted' = <<Emit(s, "userNotFound", [number |-> number])>>
    /\ mails' = <<>>
    /\ UNCHANGED <<store, opened, connected, clock>>

\* mutant: the message is put in front of the log
PushMessage_Front(log, message) == <<message>> \o log

\* messages.get(chatId).push(message)   (line 268)
PushMessage(log, message) == Append(log, message)

\* number of messages stored over all logs
RECURSIVE TotalMsgs(_)
TotalMsgs(keys) ==
    IF keys = {} THEN 0
    ELSE LET k == CHOOSE x \in keys : TRUE
         IN  Len(messages[k]) + TotalMsgs(keys \ {k})

\* the mailOptions of lines 283-301, by the values interpolated into them
MailOptions(toUser, fromUser, text) ==
    [to |-> toUser.email,
     nickname |-> fromUser.nickname,
     number |-> fromUser.number,
     lastname |-> fromUser.lastname,
     text |-> text,
     encodedMessage |-> encodeToNumbers(text)]

\* socket.on('sendMessage')   (lines 240-313)
sendMessage(s, messageData) ==
    /\ s \in connected
    /\ IF s \notin DOMAIN activeConnections
       THEN /\ emitted' = <<Emit(s, "error", [message |-> "Not registered"])>>
            /\ mails' = <<>>
            /\ UNCHANGED messages
       ELSE IF FindByNumber(messageData.to) = {}
       THEN /\ emitted' = <<Emit(s, "error", [message |-> "Recipient not found"])>>
            /\ mails' = <<>>
            /\ UNCHANGED messages
       ELSE LET fromUserId == activeConnections[s]
                toUser == users[CHOOSE k \in FindByNumber(messageData.to) : TRUE]
                message == [from |-> fromUserId, to |-> messageData.to,
                            text |-> messageData.text, timestamp |-> clock]
                chatId == ChatId(fromUserId, messageData.to)
                log == IF chatId \in DOMAIN messages THEN messages[chatId] ELSE <<>>
            IN  /\ emitted' =
                       <<Emit(s, "messageSent", message)>> \o
                       DeliverToRecipient(toUser, message)
                /\ messages' = MapSet(messages, chatId, PushMessage(log, message))
                /\ mails' =
                       IF toUser.email # <<>> /\ Trim(toUser.email) # <<>>
                       THEN <<MailOptions(toUser, users[fromUserId], messageData.text)>>
                       ELSE <<>>
    /\ UNCHANGED <<users, userOrder, activeConnections, signInRequests,
                   opened, connected, clock>>

\* socket.on('getChatHistory')   (lines 316-330)
getChatHistory(s, targetNumber) ==
    /\ s \in connected
    /\ IF s \notin DOMAIN activeConnections
       THEN emitted' = <<Emit(s, "error", [message |-> "Not registered"])>>
       ELSE LET chatId == ChatId(activeConnections[s], targetNumber)
                chatHistory == IF chatId \in DOMAIN messages
                               THEN messages[chatId] ELSE <<>>
            IN  emitted' = <<Emit(s, "chatHistory",
                                  [targetNumber |-> targetNumber,
                                   messages |-> chatHistory])>>
    /\ mails' = <<>>
    /\ UNCHANGED <<store, opened, connected, clock>>

\* socket.on('initiateCall')   (lines 333-352)
initiateCall(s, data) ==
    /\ s \in connected
    /\ IF s \notin DOMAIN activeConnections
       THEN emitted' = <<>>
       ELSE LET fromUserId == activeConnections[s]
                found == FindByNumber(data.to)
            IN  IF found # {} /\ users[CHOOSE k \in found : TRUE].socketId # Null
                THEN emitted' =
                       <<Emit(users[CHOOSE k \in found : TRUE].socketId, "incomingCall",
                              [from |-> fromUserId,
                               caller |-> [nickname |-> users[fromUserId].nickname,
                                           lastname |-> users[fromUserId].lastname,
                                           photo |-> users[fromUserId].photo],
                               offer |-> data.offer])>>
                ELSE emitted' = <<>>
    /\ mails' = <<>>
    /\ UNCHANGED <<store, opened, connected, clock>>

\* socket.on('answerCall')   (lines 355-368)
answerCall(s, data) ==
    /\ s \in connected
    /\ IF s \notin DOMAIN activeConnections
       THEN emitted' = <<>>
       ELSE LET fromUserId == activeConnections[s]
                found == FindByNumber(data.to)
            IN  IF found # {} /\ users[CHOOSE k \in found : TRUE].socketId # Null
                THEN emitted' =
                       <<Emit(users[CHOOSE k \in found : TRUE].socketId, "callAnswered",
                              [from |-> fromUserId, answer |-> data.answer])>>
                ELSE emitted' = <<>>
    /\ mails' = <<>>
    /\ UNCHANGED <<store, opened, connected, clock>>

\* mutant: the sender is left out of the forwarded object
WithFrom_Never(s, payload) == payload

\* { from: activeConnections.get(socket.id), ... }: an undefined property is
\* absent from the object that is sent   (lines 376, 388)
WithFrom(s, payload) ==
    IF s \in DOMAIN activeConnections
    THEN ("from" :> activeConnections[s]) @@ payload
    ELSE payload

\* socket.on('iceCandidate')   (lines 371-380)
iceCandidate(s, data) ==
    /\ s \in connected
    /\ LET found == FindByNumber(data.to)
       IN  IF found # {} /\ users[CHOOSE k \in found : TRUE].socketId # Null
           THEN emitted' =
                  <<Emit(users[CHOOSE k \in found : TRUE].socketId, "iceCandidate",
                         WithFrom(s, [candidate |-> data.candidate]))>>
           ELSE emitted' = <<>>
    /\ mails' = <<>>
    /\ UNCHANGED <<store, opened, connected, clock>>

\* socket.on('endCall')   (lines 383-391)
endCall(s, data) ==
    /\ s \in connected
    /\ LET found == FindByNumber(data.to)
       IN  IF found # {} /\ users[CHOOSE k \in found : TRUE].socketId # Null
           THEN emitted' =
                  <<Emit(users[CHOOSE k \in found : TRUE].socketId, "callEnded",
                         WithFrom(s, EmptyMap))>>
           ELSE emitted' = <<>>
    /\ mails' = <<>>
    /\ UNCHANGED <<store, opened, connected, clock>>

\* socket.on('disconnect')   (lines 394-404)
disconnect(s) ==
    /\ s \in connected
    /\ connected' = connected \ {s}
    /\ mails' = <<>>
    /\ emitted' = <<>>
    /\ UNCHANGED <<userOrder, messages, signInRequests, opened, clock>>
    /\ IF s \in DOMAIN activeConnections
       THEN LET userId == activeConnections[s] IN
            /\ users' = IF userId \in DOMAIN users
                        THEN [users EXCEPT ![userId].socketId = Null]
                        ELSE users
            /\ activeConnections' = MapDelete(activeConnections, s)
       ELSE UNCHANGED <<users, activeConnections>>

Next ==
    \/ connection
    \/ Tick
    \/ \E s \in SocketIds, userData \in RegisterInputs : register(s, userData)
    \/ \E s \in SocketIds, r \in RequestIdInputs : approveSignIn(s, [requestId |-> r])
    \/ \E s \in SocketIds, r \in RequestIdInputs : denySignIn(s, [requestId |-> r])
    \/ \E s \in SocketIds, profileData \in UpdateInputs : updateProfile(s, profileData)
    \/ \E s \in SocketIds, number \in ToInputs : getUserByNumber(s, number)
    \/ \E s \in SocketIds, to \in ToInputs, text \in TextInputs :
           TotalMsgs(DOMAIN messages) < MaxMsgs
               /\ sendMessage(s, [to |-> to, text |-> text])
    \/ \E s \in SocketIds, targetNumber \in ToInputs : getChatHistory(s, targetNumber)
    \/ \E s \in SocketIds, to \in ToInputs : initiateCall(s, [to |-> to, offer |-> "offer"])
    \/ \E s \in SocketIds, to \in ToInputs : answerCall(s, [to |-> to, answer |-> "answer"])
    \/ \E s \in SocketIds, to \in ToInputs :
           iceCandidate(s, [to |-> to, candidate |-> "candidate"])
    \/ \E s \in SocketIds, to \in ToInputs : endCall(s, [to |-> to])
    \/ \E s \in SocketIds : disconnect(s)

Spec == Init /\ [][Next]_vars

\* The complete state graph of Spec is too large to enumerate; the
\* specifications below restrict Next to the handlers of one component each.

\* the validation of register, over every payload of RegisterInputs
NextRegister ==
    \/ connection
    \/ \E s \in SocketIds, userData \in RegisterInputs : register(s, userData)
    \/ \E s \in SocketIds, profileData \in UpdateInputs : updateProfile(s, profileData)
    \/ \E s \in SocketIds : disconnect(s)

SpecRegister == Init /\ [][NextRegister]_vars

\* the sign-in handlers: identity directory, session registry and arbiter
NextSignIn ==
    \/ connection
    \/ Tick
    \/ \E s \in SocketIds, userData \in SignInInputs : register(s, userData)
    \/ \E s \in SocketIds, r \in RequestIdInputs : approveSignIn(s, [requestId |-> r])
    \/ \E s \in SocketIds, r \in RequestIdInputs : denySignIn(s, [requestId |-> r])
    \/ \E s \in SocketIds : disconnect(s)

SpecSignIn == Init /\ [][NextSignIn]_vars

\* direct sign-in: register against live, pending and disconnected sessions
NextDirect ==
    \/ connection
    \/ \E s \in SocketIds, userData \in SignInInputs : register(s, userData)
    \/ \E s \in SocketIds : disconnect(s)

SpecDirect == Init /\ [][NextDirect]_vars

\* the arbiter's denial of pending requests
NextDeny ==
    \/ connection
    \/ Tick
    \/ \E s \in SocketIds, userData \in ValidInputs : register(s, userData)
    \/ \E s \in SocketIds, r \in RequestIdInputs : denySignIn(s, [requestId |-> r])
    \/ \E s \in SocketIds : disconnect(s)

SpecDeny == Init /\ [][NextDeny]_vars

\* hand-over of a session followed by message delivery
NextHandOver ==
    \/ connection
    \/ \E s \in SocketIds, userData \in ValidInputs : register(s, userData)
    \/ \E s \in SocketIds, r \in RequestIdInputs : approveSignIn(s, [requestId |-> r])
    \/ \E s \in SocketIds, to \in ToInputs, text \in TextInputs :
           TotalMsgs(DOMAIN messages) < MaxMsgs
               /\ sendMessage(s, [to |-> to, text |-> text])
    \/ \E s \in SocketIds : disconnect(s)

SpecHandOver == Init /\ [][NextHandOver]_vars

\* the chat logs: sending, delivery and history
NextHist ==
    \/ connection
    \/ \E s \in SocketIds, userData \in ValidInputs : register(s, userData)
    \/ \E s \in SocketIds, to \in ToInputs, text \in TextInputs :
           TotalMsgs(DOMAIN messages) < MaxMsgs
               /\ sendMessage(s, [to |-> to, text |-> text])
    \/ \E s \in SocketIds, targetNumber \in ToInputs : getChatHistory(s, targetNumber)
    \/ \E s \in SocketIds : disconnect(s)

SpecHist == Init /\ [][NextHist]_vars

\* two-way conversations: several messages per log and their history
NextPair ==
    \/ connection
    \/ \E s \in SocketIds, userData \in ValidInputs : register(s, userData)
    \/ \E s \in SocketIds, to \in ToInputs, text \in TextInputs :
           TotalMsgs(DOMAIN messages) < MaxLogMsgs
               /\ sendMessage(s, [to |-> to, text |-> text])
    \/ \E s \in SocketIds, targetNumber \in ToInputs : getChatHistory(s, targetNumber)

SpecPair == Init /\ [][NextPair]_vars

\* the profile of a user across sign-in, hand-over, denial and disconnect
NextProfile ==
    \/ connection
    \/ \E s \in SocketIds, userData \in ValidInputs : register(s, userData)
    \/ \E s \in SocketIds, r \in RequestIdInputs : approveSignIn(s, [requestId |-> r])
    \/ \E s \in SocketIds, r \in RequestIdInputs : denySignIn(s, [requestId |-> r])
    \/ \E s \in SocketIds, profileData \in UpdateInputs : updateProfile(s, profileData)
    \/ \E s \in SocketIds : disconnect(s)

SpecProfile == Init /\ [][NextProfile]_vars

\* the identity directory: creation, update and lookup of users
NextDirectory ==
    \/ connection
    \/ \E s \in SocketIds, userData \in SignInInputs : register(s, userData)
    \/ \E s \in SocketIds, profileData \in UpdateInputs : updateProfile(s, profileData)
    \/ \E s \in SocketIds, number \in ToInputs : getUserByNumber(s, number)
    \/ \E s \in SocketIds : disconnect(s)

SpecDirectory == Init /\ [][NextDirectory]_vars

\* the conversation logs over time: sends at different clock values
NextLog ==
    \/ connection
    \/ Tick
    \/ \E s \in SocketIds, userData \in ValidInputs : register(s, userData)
    \/ \E s \in SocketIds, to \in ToInputs, text \in TextInputs :
           TotalMsgs(DOMAIN messages) < MaxLogMsgs
               /\ sendMessage(s, [to |-> to, text |-> text])
    \/ \E s \in SocketIds : disconnect(s)

SpecLog == Init /\ [][NextLog]_vars

\* call signaling between registered, unregistered and disconnected sockets
NextCall ==
    \/ connection
    \/ \E s \in SocketIds, userData \in ValidInputs : register(s, userData)
    \/ \E s \in SocketIds, to \in ToInputs : initiateCall(s, [to |-> to, offer |-> "offer"])
    \/ \E s \in SocketIds, to \in ToInputs : answerCall(s, [to |-> to, answer |-> "answer"])
    \/ \E s \in SocketIds, to \in ToInputs :
           iceCandidate(s, [to |-> to, candidate |-> "candidate"])
    \/ \E s \in SocketIds, to \in ToInputs : endCall(s, [to |-> to])
    \/ \E s \in SocketIds : disconnect(s)

SpecCall == Init /\ [][NextCall]_vars

\* the session registry under registration, hand-over and disconnect, with
\* several requests pending
NextRegistry ==
    \/ connection
    \/ Tick
    \/ \E s \in SocketIds, userData \in ValidInputs : register(s, userData)
    \/ \E s \in SocketIds, r \in RequestIdInputs : approveSignIn(s, [requestId |-> r])
    \/ \E s \in SocketIds : disconnect(s)

SpecRegistry == Init /\ [][NextRegistry]_vars

\* the stored conversations read back with made-up targets
NextArchive ==
    \/ connection
    \/ \E s \in SocketIds, userData \in ValidInputs : register(s, userData)
    \/ \E s \in SocketIds, to \in ToInputs, text \in TextInputs :
           TotalMsgs(DOMAIN messages) < MaxLogMsgs
               /\ sendMessage(s, [to |-> to, text |-> text])
    \/ \E s \in SocketIds, targetNumber \in HistoryInputs :
           getChatHistory(s, targetNumber)

SpecArchive == Init /\ [][NextArchive]_vars

\* ================================================================= claims
\* the registry entry of connection c in registry m, as a set
RegOf(m, c) == IF c \in DOMAIN m THEN {m[c]} ELSE {}

\* the connections the events named event in sequence es are sent to
TargetsOf(es, event) == {es[i].to : i \in {j \in 1..Len(es) : es[j].event = event}}

\* the only event of es is one named event, sent to connection c
OnlyEvent(es, event, c) == Len(es) = 1 /\ es[1].event = event /\ es[1].to = c

\* a payload whose number is exactly four ASCII digits
FourAsciiDigits(userData) ==
    /\ "number" \in DOMAIN userData
    /\ userData.number \in [1..4 -> 48..57]

\* --------------------------------------------------------------------- C1
C1_Pre(s, r) ==
    /\ r \in DOMAIN signInRequests
    /\ s \in DOMAIN activeConnections
    /\ activeConnections[s] = signInRequests[r].number
    /\ users[signInRequests[r].number].socketId = s
    /\ signInRequests[r].requestingSocketId # s

C2_ApproveGuarded ==
    [][ \A s \in SocketIds, r \in RequestIdInputs :
            (/\ approveSignIn(s, [requestId |-> r])
             /\ \/ r \notin DOMAIN signInRequests
                \/ users[signInRequests[r].number].socketId # s
                \/ RegOf(activeConnections, s) # {signInRequests[r].number}) =>
                /\ UNCHANGED store
                /\ emitted' = <<>>
      ]_vars

\* --------------------------------------------------------------------- C3
\* C3: an approveSignIn of request r that succeeds makes r.requestingSocketId
\* the live session of the user r targets, binds that connection to r.number in
\* the registry, and sends it signInApproved with r.number and that user's
\* profile.
C3_ApproveTargetsRequestedUser ==
    [][ \A s \in SocketIds, r \in RequestIdInputs :
            (/\ r \in DOMAIN signInRequests
             /\ s \in DOMAIN activeConnections
             /\ approveSignIn(s, [requestId |-> r])) =>
                LET request == signInRequests[r] IN
                /\ users'[request.number].socketId = request.requestingSocketId
                /\ RegOf(activeConnections', request.requestingSocketId) = {request.number}
                /\ OnlyEvent(emitted', "signInApproved", request.requestingSocketId)
                /\ emitted'[1].payload.userId = request.number
                /\ emitted'[1].payload.user = users'[request.number]
      ]_vars

\* --------------------------------------------------------------------- C4
\* C4: a register for U from connection s while U has a live session on
\* another connection c1 adds exactly one new SignInRequest {U, s}, emits
\* signInRequest to c1 and awaitingAuthorization to s and leaves users and the
\* registry unchanged; and the step that follows it, unless it is an
\* approveSignIn or a disconnect, leaves U's record and the registry entries
\* of c1 and s unchanged.
C4_ConflictCreatesOneRequest ==
    [][ /\ \A s \in SocketIds, userData \in RegisterInputs :
              (/\ FourAsciiDigits(userData)
               /\ userData.number \in DOMAIN users
               /\ users[userData.number].socketId \notin {Null, s}
               /\ register(s, userData)) =>
                  /\ \E rid \in RequestIdInputs \ DOMAIN signInRequests :
                         signInRequests' = MapSet(signInRequests, rid,
                             [number |-> userData.number, requestingSocketId |-> s])
                  /\ Len(emitted') = 2
                  /\ emitted'[1].event = "signInRequest"
                  /\ emitted'[1].to = users[userData.number].socketId
                  /\ emitted'[2].event = "awaitingAuthorization"
                  /\ emitted'[2].to = s
                  /\ users' = users
                  /\ activeConnections' = activeConnections
        /\ \A c1, c2 \in SocketIds, u \in ValidNumbers :
              (/\ Len(emitted) = 2
               /\ emitted[1].event = "signInRequest"
               /\ emitted[1].to = c1
               /\ emitted[2].to = c2
               /\ c1 # c2
               /\ users[u].socketId = c1
               /\ signInRequests[emitted[1].payload.requestId] =
                      [number |-> u, requestingSocketId |-> c2]
               /\ ~ \E s \in SocketIds, r \in RequestIdInputs :
                        approveSignIn(s, [requestId |-> r])
               /\ ~ \E s \in SocketIds : disconnect(s)) =>
                  /\ users'[u] = users[u]
                  /\ RegOf(activeConnections', c1) = RegOf(activeConnections, c1)
                  /\ RegOf(activeConnections', c2) = RegOf(activeConnections, c2)
      ]_vars

\* --------------------------------------------------------------------- C5
\* C5: a register for the identifier of an existing user U that has no live
\* session binds the registering connection s as U's live session (nothing
\* else of users changes), maps s to U in the registry, emits registered with
\* U's record to s, and leaves the pending requests unchanged.
C5_DirectSignIn ==
    [][ \A s \in connected, userData \in RegisterInputs :
            (/\ FourAsciiDigits(userData)
             /\ userData.number \in DOMAIN users
             /\ users[userData.number].socketId = Null
             /\ register(s, userData)) =>
                /\ users' = [users EXCEPT ![userData.number].socketId = s]
                /\ activeConnections'[s] = userData.number
                /\ emitted' = <<Emit(s, "registered",
                                     [userId |-> userData.number,
                                      user |-> [users[userData.number]
                                                    EXCEPT !.socketId = s]])>>
                /\ signInRequests' = signInRequests
      ]_vars

\* registered was emitted for a user for whom a request is pending: the user
\* existed before this register, which therefore signed in directly
C5_Witness ==
    /\ Len(emitted) = 1
    /\ emitted[1].event = "registered"
    /\ \E r \in DOMAIN signInRequests :
           signInRequests[r].number = emitted[1].payload.userId
    /\ users[emitted[1].payload.userId].socketId = emitted[1].to

\* --------------------------------------------------------------------- C6
\* C6: denySignIn of a pending request r emits signInDenied to
\* r.requestingSocketId, removes r and only r from the pending table, and
\* leaves users, the registry and the logs unchanged.
C6_DenyLeavesSessions ==
    [][ \A s \in connected, r \in DOMAIN signInRequests :
            denySignIn(s, [requestId |-> r]) =>
                /\ OnlyEvent(emitted', "signInDenied", signInRequests[r].requestingSocketId)
                /\ DOMAIN signInRequests' = DOMAIN signInRequests \ {r}
                /\ \A q \in DOMAIN signInRequests' : signInRequests'[q] = signInRequests[q]
                /\ users' = users
                /\ activeConnections' = activeConnections
                /\ messages' = messages
      ]_vars

\* connection 2 was denied while connection 1 is still the live session of a
\* user, and another request is still pending
C6_Witness ==
    /\ OnlyEvent(emitted, "signInDenied", 2)
    /\ \E u \in DOMAIN users : users[u].socketId = 1 /\ RegOf(activeConnections, 1) = {u}
    /\ signInRequests # EmptyMap

\* --------------------------------------------------------------------- C7
\* C7: a register whose number is not exactly four ASCII digits emits error to
\* the registering connection and changes no user, registry entry, request or
\* log.
C7_InvalidNumberRejected ==
    [][ \A s \in connected, userData \in RegisterInputs :
            (~ FourAsciiDigits(userData) /\ register(s, userData)) =>
                /\ OnlyEvent(emitted', "error", s)
                /\ UNCHANGED store
      ]_vars

\* the validation error was emitted while a user exists
C7_Witness ==
    /\ Len(emitted) = 1
    /\ emitted[1].event = "error"
    /\ emitted[1].payload.message = "Number must be exactly 4 digits"
    /\ users # EmptyMap

\* --------------------------------------------------------------------- C8
\* C8: no connection is the live session (socketId) of two different users.
C8_OneUserPerConnection ==
    \A u1, u2 \in DOMAIN users :
        (u1 # u2 /\ users[u1].socketId # Null) => users[u1].socketId # users[u2].socketId

\* --------------------------------------------------------------------- C9
\* C9: every live-session reference that is not null names a connection that
\* is connected.
C9_LiveSessionConnected ==
    \A u \in DOMAIN users : users[u].socketId # Null => users[u].socketId \in connected

\* -------------------------------------------------------------------- C10
\* the log of the pair {a, b} in m, whichever way round it is asked for
LogOf(m, a, b) == IF ChatId(a, b) \in DOMAIN m THEN m[ChatId(a, b)] ELSE <<>>

\* C10: a sendMessage from a connection authenticated as A to an existing user
\* B appends exactly the message {from A, to B, text} to the log of the pair
\* and changes no other log, emits messageSent to the sender, and emits
\* messageReceived, to B's live session, exactly when B has one; no other
\* step emits messageReceived; and a getChatHistory answers with every message
\* stored between the requester and the target, in either direction.
C10_SendAppendsAndDelivers ==
    [][ /\ \A s \in connected \cap DOMAIN activeConnections,
                 to \in DOMAIN users, text \in TextInputs :
              sendMessage(s, [to |-> to, text |-> text]) =>
                  LET A == activeConnections[s]
                      message == [from |-> A, to |-> to, text |-> text,
                                  timestamp |-> clock]
                  IN  /\ LogOf(messages', A, to) = Append(LogOf(messages, A, to), message)
                      /\ LogOf(messages', to, A) = LogOf(messages', A, to)
                      /\ \A k \in DOMAIN messages' :
                             k \in DOMAIN messages \/ k = ChatId(A, to)
                      /\ \A k \in DOMAIN messages :
                             /\ k \in DOMAIN messages'
                             /\ k # ChatId(A, to) => messages'[k] = messages[k]
                      /\ emitted'[1] = Emit(s, "messageSent", message)
                      /\ IF users[to].socketId # Null
                         THEN /\ Len(emitted') = 2
                              /\ emitted'[2] = Emit(users[to].socketId,
                                                    "messageReceived", message)
                         ELSE Len(emitted') = 1
        /\ TargetsOf(emitted', "messageReceived") # {} =>
              \E s \in connected, to \in ToInputs, text \in TextInputs :
                  /\ sendMessage(s, [to |-> to, text |-> text])
                  /\ messages' # messages
        /\ \A s \in connected \cap DOMAIN activeConnections, target \in ToInputs :
              getChatHistory(s, target) =>
                  /\ OnlyEvent(emitted', "chatHistory", s)
                  /\ \A k \in DOMAIN messages : \A i \in 1..Len(messages[k]) :
                         ({messages[k][i].from, messages[k][i].to}
                              = {activeConnections[s], target}) =>
                             \E j \in 1..Len(emitted'[1].payload.messages) :
                                 emitted'[1].payload.messages[j] = messages[k][i]
      ]_vars

\* a message was sent to a user with no live session: it is in the log, and
\* only messageSent was emitted
C10_Witness ==
    /\ Len(emitted) = 1
    /\ emitted[1].event = "messageSent"
    /\ users[emitted[1].payload.to].socketId = Null
    /\ emitted[1].payload.from # emitted[1].payload.to
    /\ LogOf(messages, emitted[1].payload.to, emitted[1].payload.from)
           = <<emitted[1].payload>>

\* -------------------------------------------------------------------- C11
\* C11: a sendMessage from a connection that is not authenticated, or to an
\* identifier no user exists for, emits one error to the sender and nothing
\* else (no messageSent, no messageReceived, no mail) and changes no Map: no
\* log is created or extended.
C11_FailedSendChangesNothing ==
    [][ \A s \in connected, to \in ToInputs, text \in TextInputs :
            (/\ s \notin DOMAIN activeConnections \/ to \notin DOMAIN users
             /\ sendMessage(s, [to |-> to, text |-> text])) =>
                /\ OnlyEvent(emitted', "error", s)
                /\ emitted'[1].payload.message =
                       IF s \notin DOMAIN activeConnections
                       THEN "Not registered" ELSE "Recipient not found"
                /\ mails' = <<>>
                /\ UNCHANGED store
      ]_vars

\* an authenticated connection was refused a send to an identifier nobody
\* registered, while another user exists
C11_Witness ==
    /\ Len(emitted) = 1
    /\ emitted[1].event = "error"
    /\ emitted[1].payload.message = "Recipient not found"
    /\ emitted[1].to \in DOMAIN activeConnections
    /\ Cardinality(DOMAIN users) = 2
    /\ messages = EmptyMap

\* -------------------------------------------------------------------- C12
\* C12: the conversation key of (a, b) equals the key of (b, a) for all
\* identifiers a and b; so in every state the log looked up for (a, b) is the
\* log looked up for (b, a), and a getChatHistory by a connection
\* authenticated as A for B answers with exactly the sequence a getChatHistory
\* by B for A reads: the log under the key of (B, A).
C12_ChatKeySymmetric ==
    /\ [](/\ \A a, b \in ToInputs : ChatId(a, b) = ChatId(b, a)
          /\ \A a, b \in ToInputs : LogOf(messages, a, b) = LogOf(messages, b, a))
    /\ [][ \A s \in connected \cap DOMAIN activeConnections, target \in ToInputs :
              getChatHistory(s, target) =>
                  /\ OnlyEvent(emitted', "chatHistory", s)
                  /\ emitted'[1].payload.messages =
                         LogOf(messages, target, activeConnections[s])
          ]_vars

\* the user who sorts first asked for the history of a conversation that the
\* other user opened and the asker then answered
C12_Witness ==
    /\ Len(emitted) = 1
    /\ emitted[1].event = "chatHistory"
    /\ RegOf(activeConnections, emitted[1].to) = {STR_1234}
    /\ Len(emitted[1].payload.messages) = 2
    /\ emitted[1].payload.messages[1].from = STR_5678
    /\ emitted[1].payload.messages[1].to = STR_1234
    /\ emitted[1].payload.messages[2].from = STR_1234
    /\ emitted[1].payload.messages[2].to = STR_5678

\* -------------------------------------------------------------------- C13
ProfileFields == {"nickname", "lastname", "photo", "age", "email", "phone", "birthday"}

\* the profile fields of a user record
ProfileOf(user) == [f \in ProfileFields |-> user[f]]

\* C13: when a profile field of an existing user u changes in a step, the step
\* is an updateProfile from a connection the registry maps to u and every
\* field that is absent from its payload keeps its value - so a register for
\* an existing identifier, approveSignIn, denySignIn and disconnect change no
\* profile field; an updateProfile from a connection that is not in the
\* registry emits error and changes nothing.
C13_ProfileChangesByOwner ==
    [][ /\ \A u \in DOMAIN users :
              /\ u \in DOMAIN users'
              /\ ProfileOf(users'[u]) # ProfileOf(users[u]) =>
                     \E s \in connected, profileData \in UpdateInputs :
                         /\ updateProfile(s, profileData)
                         /\ RegOf(activeConnections, s) = {u}
                         /\ \A f \in ProfileFields \ DOMAIN profileData :
                                users'[u][f] = users[u][f]
        /\ \A s \in connected \ DOMAIN activeConnections, profileData \in UpdateInputs :
              updateProfile(s, profileData) =>
                  /\ emitted' = <<Emit(s, "error", [message |-> "Not registered"])>>
                  /\ UNCHANGED store
      ]_vars

\* a user changed nickname, age and email and kept the other fields, while a
\* sign-in request for that user is pending
C13_Witness ==
    /\ Len(emitted) = 1
    /\ emitted[1].event = "profileUpdated"
    /\ emitted[1].payload.user.nickname = "Zed"
    /\ emitted[1].payload.user.lastname = "B"
    /\ emitted[1].payload.user.phone = "555"
    /\ \E r \in DOMAIN signInRequests :
           signInRequests[r].number = emitted[1].payload.user.number

\* -------------------------------------------------------------------- C14
\* C14: every register that takes the conflict path stores its request under
\* a requestId that no pending request has: the pending table grows by
\* exactly one entry and every request that was pending is still there,
\* unchanged - whether or not the clock advanced since the last conflict.
C14_RequestIdsUnique ==
    [][ \A s \in connected, userData \in SignInInputs :
            (/\ FourAsciiDigits(userData)
             /\ userData.number \in DOMAIN users
             /\ users[userData.number].socketId # Null
             /\ register(s, userData)) =>
                /\ Cardinality(DOMAIN signInRequests') =
                       Cardinality(DOMAIN signInRequests) + 1
                /\ \A r \in DOMAIN signInRequests :
                       /\ r \in DOMAIN signInRequests'
                       /\ signInRequests'[r] = signInRequests[r]
      ]_vars

\* -------------------------------------------------------------------- C15
\* C15: a pending request - the record stored under its requestId - is still
\* pending after every step that is not an approveSignIn or a denySignIn
\* naming that requestId.
C15_PendingUntilAnswered ==
    [][ \A r \in DOMAIN signInRequests :
            \/ /\ r \in DOMAIN signInRequests'
               /\ signInRequests'[r] = signInRequests[r]
            \/ \E s \in connected : approveSignIn(s, [requestId |-> r])
            \/ \E s \in connected : denySignIn(s, [requestId |-> r])
      ]_vars

\* -------------------------------------------------------------------- C16
\* C16: in every state each key of users is a string of four ASCII digits and
\* the record under it has that key as its number, so the scan for a number
\* finds exactly the record stored under that key, or nothing when the key is
\* absent; no step removes a user or changes its number; and getUserByNumber
\* answers with the fields of the record stored under the number asked for,
\* or with userNotFound when there is none.
C16_UsersKeptUnderTheirNumber ==
    /\ [](/\ \A k \in DOMAIN users :
                /\ k \in [1..4 -> 48..57]
                /\ users[k].number = k
          /\ \A n \in ToInputs :
                FindByNumber(n) = IF n \in DOMAIN users THEN {n} ELSE {})
    /\ [][ /\ \A k \in DOMAIN users :
                /\ k \in DOMAIN users'
                /\ users'[k].number = users[k].number
           /\ \A s \in connected, n \in ToInputs :
                getUserByNumber(s, n) =>
                    /\ Len(emitted') = 1
                    /\ emitted'[1].to = s
                    /\ IF n \in DOMAIN users
                       THEN /\ emitted'[1].event = "userFound"
                            /\ emitted'[1].payload =
                                   [number |-> n,
                                    nickname |-> users[n].nickname,
                                    lastname |-> users[n].lastname,
                                    photo |-> users[n].photo]
                       ELSE /\ emitted'[1].event = "userNotFound"
                            /\ emitted'[1].payload = [number |-> n]
          ]_vars

\* the scan found the user that was registered second, who has changed the
\* profile since and is now offline
C16_Witness ==
    /\ Len(emitted) = 1
    /\ emitted[1].event = "userFound"
    /\ Len(userOrder) = 2
    /\ emitted[1].payload.number = userOrder[2]
    /\ emitted[1].payload.nickname = "Zed"
    /\ users[userOrder[2]].socketId = Null

\* -------------------------------------------------------------------- C17
\* sequence a is a prefix of sequence b
IsPrefix(a, b) == Len(a) <= Len(b) /\ SubSeq(b, 1, Len(a)) = a

\* C17: in every step every log is still there and its previous content is a
\* prefix of its new content; a step that changes the logs is a sendMessage
\* from an authenticated connection to an existing user, and it makes exactly
\* one log one message longer and leaves the others as they were; and, the
\* clock never going back, the timestamps of each log never decrease along
\* the log.
C17_LogsAppendOnly ==
    /\ [](\A k \in DOMAIN messages : \A i \in 1..(Len(messages[k]) - 1) :
              messages[k][i].timestamp <= messages[k][i + 1].timestamp)
    /\ [][ /\ clock <= clock'
           /\ \A k \in DOMAIN messages :
                 /\ k \in DOMAIN messages'
                 /\ IsPrefix(messages[k], messages'[k])
           /\ messages' # messages =>
                 /\ \E s \in connected \cap DOMAIN activeConnections,
                        to \in DOMAIN users, text \in TextInputs :
                        sendMessage(s, [to |-> to, text |-> text])
                 /\ \E k \in DOMAIN messages' :
                        /\ Len(messages'[k]) =
                               (IF k \in DOMAIN messages THEN Len(messages[k]) ELSE 0) + 1
                        /\ \A j \in DOMAIN messages' \ {k} :
                               j \in DOMAIN messages /\ messages'[j] = messages[j]
          ]_vars

\* a message was just appended to a log that already held an earlier message,
\* sent by the other party at a smaller timestamp
C17_Witness ==
    /\ Len(emitted) >= 1
    /\ emitted[1].event = "messageSent"
    /\ \E k \in DOMAIN messages :
           /\ Len(messages[k]) = 2
           /\ messages[k][2] = emitted[1].payload
           /\ messages[k][1].timestamp < messages[k][2].timestamp
           /\ messages[k][1].from # messages[k][2].from

\* -------------------------------------------------------------------- C18
\* a step of one of the four call-signaling handlers, sent by s for target to
CallStep(s, to) ==
    \/ initiateCall(s, [to |-> to, offer |-> "offer"])
    \/ answerCall(s, [to |-> to, answer |-> "answer"])
    \/ iceCandidate(s, [to |-> to, candidate |-> "candidate"])
    \/ endCall(s, [to |-> to])

\* user to exists and has a live session
Online(to) == to \in DOMAIN users /\ users[to].socketId # Null

\* C18: each of initiateCall, answerCall, iceCandidate and endCall forwards one
\* event, to the live session of the target and carrying as from the
\* identifier the sender is authenticated as, when the sender is
\* authenticated and the target exists and is online; otherwise - the sender
\* has no bound identity, or the target is unknown or offline - it emits
\* nothing.
C18_SignalingNeedsIdentity ==
    [][ \A s \in connected, to \in ToInputs :
            CallStep(s, to) =>
                IF s \in DOMAIN activeConnections /\ Online(to)
                THEN /\ Len(emitted') = 1
                     /\ emitted'[1].to = users[to].socketId
                     /\ "from" \in DOMAIN emitted'[1].payload
                     /\ emitted'[1].payload.from = activeConnections[s]
                ELSE emitted' = <<>>
      ]_vars

\* -------------------------------------------------------------------- C19
\* C19: initiateCall, answerCall, iceCandidate and endCall change none of
\* users, activeConnections, signInRequests and messages (nor the insertion
\* order of users), so no step can tell whether an initiateCall came before;
\* and in every state an answerCall from an authenticated connection, and
\* every iceCandidate and endCall, addressed to a user with a live session
\* is forwarded to that session.
C19_SignalingStateless ==
    [][ \A s \in connected, to \in ToInputs :
            /\ CallStep(s, to) => UNCHANGED store
            /\ (Online(to) /\ s \in DOMAIN activeConnections
                    /\ answerCall(s, [to |-> to, answer |-> "answer"])) =>
                   emitted' = <<Emit(users[to].socketId, "callAnswered",
                                     [from |-> activeConnections[s],
                                      answer |-> "answer"])>>
            /\ (Online(to) /\ iceCandidate(s, [to |-> to, candidate |-> "candidate"])) =>
                   /\ OnlyEvent(emitted', "iceCandidate", users[to].socketId)
                   /\ emitted'[1].payload.candidate = "candidate"
                   /\ s \in DOMAIN activeConnections =>
                          /\ "from" \in DOMAIN emitted'[1].payload
                          /\ emitted'[1].payload.from = activeConnections[s]
            /\ (Online(to) /\ endCall(s, [to |-> to])) =>
                   /\ OnlyEvent(emitted', "callEnded", users[to].socketId)
                   /\ s \in DOMAIN activeConnections =>
                          emitted'[1].payload = [from |-> activeConnections[s]]
      ]_vars

\* an answer was forwarded to the live session of its target, another
\* connection than the sender's
C19_Witness ==
    /\ Len(emitted) = 1
    /\ emitted[1].event = "callAnswered"
    /\ emitted[1].payload.from \in DOMAIN users
    /\ \E u \in DOMAIN users :
           /\ u # emitted[1].payload.from
           /\ users[u].socketId = emitted[1].to
           /\ RegOf(activeConnections, emitted[1].to) = {u}

\* -------------------------------------------------------------------- C20
\* C20: in every state, a connection c that activeConnections maps to u has
\* u in users with users[u].socketId = c - so no two connections are mapped
\* to the same user - and a disconnect of a connection the registry maps to u
\* clears a socketId that is that connection.
C20_RegistryNamesLiveSession ==
    /\ [](/\ \A c \in DOMAIN activeConnections :
                /\ activeConnections[c] \in DOMAIN users
                /\ users[activeConnections[c]].socketId = c
          /\ \A c1, c2 \in DOMAIN activeConnections :
                activeConnections[c1] = activeConnections[c2] => c1 = c2)
    /\ [][ \A s \in connected \cap DOMAIN activeConnections :
               disconnect(s) =>
                   /\ users[activeConnections[s]].socketId = s
                   /\ users'[activeConnections[s]].socketId = Null
          ]_vars

\* one connection is the socketId of two users, and the registry maps it to
\* one of them only
C20_Witness ==
    \E u1, u2 \in DOMAIN users :
        /\ u1 # u2
        /\ users[u1].socketId # Null
        /\ users[u1].socketId = users[u2].socketId
        /\ RegOf(activeConnections, users[u1].socketId) = {u2}

\* -------------------------------------------------------------------- C21
\* K is the two identifiers a and b in sort order, joined by the separator
IsSortedPairKey(K, a, b) ==
    \/ K = a \o STR_DASH \o b /\ ~ StrLess(b, a)
    \/ K = b \o STR_DASH \o a /\ ~ StrLess(a, b)

\* C21: in every state, each message stored under key K has a from and a to
\* that are keys of users, and K is the sorted pair of the two joined by the
\* separator; the message a sendMessage stores has as from the identifier
\* the registry maps the sending connection to, and as to the recipient
\* asked for; and every message of a chatHistory answer - the handler's
\* answer is in emitted, and getChatHistory leaves the registry as it was -
\* has as its from or as its to the identifier the registry maps the
\* answered connection to, whatever the target asked for.
C21_MessagesBelongToTheirPair ==
    /\ [](/\ \A K \in DOMAIN messages : \A i \in 1..Len(messages[K]) :
                /\ messages[K][i].from \in DOMAIN users
                /\ messages[K][i].to \in DOMAIN users
                /\ IsSortedPairKey(K, messages[K][i].from, messages[K][i].to)
          /\ \A e \in 1..Len(emitted) :
                emitted[e].event = "chatHistory" =>
                    /\ emitted[e].to \in DOMAIN activeConnections
                    /\ \A j \in 1..Len(emitted[e].payload.messages) :
                           activeConnections[emitted[e].to] \in
                               {emitted[e].payload.messages[j].from,
                                emitted[e].payload.messages[j].to})
    /\ [][ messages' # messages =>
               \A s \in connected \cap DOMAIN activeConnections,
                  to \in DOMAIN users, text \in TextInputs :
                   sendMessage(s, [to |-> to, text |-> text]) =>
                       \E K \in DOMAIN messages' :
                           /\ Len(messages'[K]) =
                                  (IF K \in DOMAIN messages THEN Len(messages[K]) ELSE 0) + 1
                           /\ messages'[K][Len(messages'[K])].from = activeConnections[s]
                           /\ messages'[K][Len(messages'[K])].to = to
          ]_vars

\* a user read a conversation it takes part in while the other user has a
\* conversation with itself, which the answer does not hold
C21_Witness ==
    /\ Len(emitted) = 1
    /\ emitted[1].event = "chatHistory"
    /\ RegOf(activeConnections, emitted[1].to) = {STR_1234}
    /\ Len(emitted[1].payload.messages) = 1
    /\ STR_5678 \o STR_DASH \o STR_5678 \in DOMAIN messages
    /\ emitted[1].payload.messages[1] \notin
           {messages[STR_5678 \o STR_DASH \o STR_5678][1]}

====
